---- MODULE Spec2Model ----
(***************************************************************************)
(* Model of the program-page extractor: scraper.py (scrape_program_page),  *)
(* llm_extractor.py (extract_structured_data_mocked,                       *)
(* extract_structured_data_ollama) and main.py (run_extraction_pipeline    *)
(* and the __main__ block).                                                *)
(*                                                                         *)
(* Python values are tagged records [t, v, d]:                             *)
(*   t = "none" | "str" | "num" | "null" | "list" | "dict"                 *)
(*   v = the characters of a string (a sequence of one-character strings;  *)
(*       a fixed literal of the source is kept as one element)             *)
(*   d = the items of a dict (a function from key to value)                *)
(***************************************************************************)
EXTENDS Integers, Sequences, FiniteSets, TLC

\* ---------------------------------------------------------------- bounds
\* Longest text handed directly to the heuristic variant, in fragments.
MaxFrags == 3
\* Longest model response, in tokens.
MaxTokens == 3

\* ---------------------------------------------------------------- values
EmptyItems == [k \in {} |-> 0]

PyNone == [t |-> "none", v |-> <<>>, d |-> EmptyItems]

PyStr(s) == [t |-> "str", v |-> s, d |-> EmptyItems]

PyDict(items) == [t |-> "dict", v |-> <<>>, d |-> items]

\* json.loads results that are not objects
JsonNull == [t |-> "null", v |-> <<>>, d |-> EmptyItems]

JsonNum == [t |-> "num", v |-> <<"18720.5">>, d |-> EmptyItems]

JsonList == [t |-> "list", v |-> <<"IELTS 6.5", "TOEFL 90">>, d |-> EmptyItems]

JsonStr == PyStr(<<"Not found">>)

\* Python truthiness, as used by `if not raw_text` and `if not structured_data`
Truthy(x) ==
    CASE x.t = "none" -> FALSE
      [] x.t = "null" -> FALSE
      [] x.t = "str"  -> x.v # <<>>
      [] x.t = "dict" -> DOMAIN x.d # {}
      [] x.t = "list" -> x.v # <<>>
      [] OTHER        -> TRUE

\* ---------------------------------------------------------------- schema
TARGET_SCHEMA ==
    <<"program_name", "university_name", "tuition_fee",
      "application_deadline", "entry_requirement_summary">>

SchemaKeys == { TARGET_SCHEMA[i] : i \in 1..Len(TARGET_SCHEMA) }

\* ---------------------------------------------------------------- text
UpperLetters ==
    <<"A","B","C","D","E","F","G","H","I","J","K","L","M",
      "N","O","P","Q","R","S","T","U","V","W","X","Y","Z">>

LowerLetters ==
    <<"a","b","c","d","e","f","g","h","i","j","k","l","m",
      "n","o","p","q","r","s","t","u","v","w","x","y","z">>

IndexIn(seq, c) == CHOOSE i \in 1..Len(seq) : seq[i] = c

IsUpper(c) == \E i \in 1..Len(UpperLetters) : UpperLetters[i] = c

IsLower(c) == \E i \in 1..Len(LowerLetters) : LowerLetters[i] = c

\* str.lower() on one character
ToLower(c) == IF IsUpper(c) THEN LowerLetters[IndexIn(UpperLetters, c)] ELSE c

\* str.upper() on one character
ToUpper(c) == IF IsLower(c) THEN UpperLetters[IndexIn(LowerLetters, c)] ELSE c

\* str.lower()
Lower(s) == [i \in 1..Len(s) |-> ToLower(s[i])]

Digits == {"0","1","2","3","4","5","6","7","8","9"}

\* regex \w
IsWordChar(c) == IsUpper(c) \/ IsLower(c) \/ c \in Digits \/ c = "_"

\* regex \s
IsSpace(c) == c \in {" ", "\n", "\t"}

\* `lit` occurs in `s` at position p
StartsAt(s, p, lit) ==
    /\ p >= 1
    /\ p + Len(lit) - 1 <= Len(s)
    /\ SubSeq(s, p, p + Len(lit) - 1) = lit

\* Python `kw in s`
Contains(s, kw) == \E p \in 1..(Len(s) + 1) : StartsAt(s, p, kw)

\* any(keyword in text_lower for keyword in keywords)
AnyIn(keywords, s) == \E kw \in keywords : Contains(s, kw)

\* ---------------------------------------------------------------- heuristic variant
NOT_FOUND == PyStr(<<"Not found">>)

MOCK_FEE == PyStr(<<"Mock Fee: Approx. €XX,XXX / year (Non-EU). Verify on official page.">>)

MOCK_DEADLINE == PyStr(<<"Mock Deadline: e.g., 1 March (Non-EU) / 1 May (EU). Verify on official page.">>)

MOCK_REQUIREMENTS == PyStr(<<"Mock Requirements: Typically Bachelor's degree + English proficiency (e.g., IELTS/TOEFL). Check specifics on official page.">>)

fee_keywords ==
    { <<"t","u","i","t","i","o","n">>,
      <<"f","e","e">>,
      <<"c","o","s","t">>,
      <<"€">>,
      <<"e","u","r">>,
      <<"u","s","d">>,
      <<"$">>,
      <<"g","b","p">>,
      <<"£">> }

deadline_keywords ==
    { <<"d","e","a","d","l","i","n","e">>,
      <<"a","p","p","l","y"," ","b","y">>,
      <<"a","p","p","l","i","c","a","t","i","o","n"," ","p","e","r","i","o","d">>,
      <<"c","l","o","s","e","s"," ","o","n">> }

month_names ==
    { <<"j","a","n">>,
      <<"f","e","b">>,
      <<"m","a","r">>,
      <<"a","p","r">>,
      <<"m","a","y">>,
      <<"j","u","n">>,
      <<"j","u","l">>,
      <<"a","u","g">>,
      <<"s","e","p">>,
      <<"o","c","t">>,
      <<"n","o","v">>,
      <<"d","e","c">> }

req_keywords ==
    { <<"r","e","q","u","i","r","e","m","e","n","t">>,
      <<"a","d","m","i","s","s","i","o","n">>,
      <<"e","n","t","r","y">>,
      <<"e","l","i","g","i","b","i","l","i","t","y">>,
      <<"q","u","a","l","i","f","i","c","a","t","i","o","n">>,
      <<"p","r","e","r","e","q","u","i","s","i","t","e">>,
      <<"i","e","l","t","s">>,
      <<"t","o","e","f","l">> }

\* position after the longest run of \s starting at p
RECURSIVE SkipSpaces(_, _)
SkipSpaces(s, p) ==
    IF p <= Len(s) /\ IsSpace(s[p]) THEN SkipSpaces(s, p + 1) ELSE p

\* position after the longest run of [\w\s] starting at p
RECURSIVE RunEnd(_, _)
RunEnd(s, p) ==
    IF p <= Len(s) /\ (IsWordChar(s[p]) \/ IsSpace(s[p])) THEN RunEnd(s, p + 1) ELSE p

\* \s*in\s*[\w\s]+ from q: index of the last matched character, 0 when no match
MatchIn(s, q) ==
    LET r == SkipSpaces(s, q)
    IN  IF StartsAt(s, r, <<"i","n">>) /\ RunEnd(s, r + 2) > r + 2
        THEN RunEnd(s, r + 2) - 1
        ELSE 0

\* \s*(?:programme|program)?\s*in\s*[\w\s]+ from q, alternatives in regex order
MatchProgram(s, q) ==
    LET r    == SkipSpaces(s, q)
        long == IF StartsAt(s, r, <<"p","r","o","g","r","a","m","m","e">>) THEN MatchIn(s, r + 9) ELSE 0
        short == IF StartsAt(s, r, <<"p","r","o","g","r","a","m">>) THEN MatchIn(s, r + 7) ELSE 0
    IN  IF long # 0 THEN long
        ELSE IF short # 0 THEN short
        ELSE MatchIn(s, q)

\* master(?:.s)?... anchored at p: index of the last matched character, 0 when no match
MatchAt(s, p) ==
    IF ~StartsAt(s, p, <<"m","a","s","t","e","r">>) THEN 0
    ELSE LET withS == IF /\ p + 7 <= Len(s)
                         /\ s[p + 6] # "\n"
                         /\ s[p + 7] = "s"
                      THEN MatchProgram(s, p + 8)
                      ELSE 0
         IN  IF withS # 0 THEN withS ELSE MatchProgram(s, p + 6)

\* re.search(r"(master(?:.s)?\s*(?:programme|program)?\s*in\s*[\w\s]+)", s):
\* group(1) of the leftmost match, <<>> when there is none (a match is never empty)
ProgramMatch(s) ==
    IF \E p \in 1..Len(s) : MatchAt(s, p) # 0
    THEN LET p == CHOOSE q \in 1..Len(s) :
                    /\ MatchAt(s, q) # 0
                    /\ \A q2 \in 1..(q - 1) : MatchAt(s, q2) = 0
         IN  SubSeq(s, p, MatchAt(s, p))
    ELSE <<>>

\* position after the word starting at p
RECURSIVE WordEnd(_, _)
WordEnd(s, p) ==
    IF p <= Len(s) /\ ~IsSpace(s[p]) THEN WordEnd(s, p + 1) ELSE p

\* str.split(): the words of s from position p on
RECURSIVE SplitFrom(_, _)
SplitFrom(s, p) ==
    LET b == SkipSpaces(s, p)
    IN  IF b > Len(s) THEN <<>>
        ELSE <<SubSeq(s, b, WordEnd(s, b) - 1)>> \o SplitFrom(s, WordEnd(s, b))

Split(s) == SplitFrom(s, 1)

\* str.capitalize()
Capitalize(w) ==
    IF w = <<>> THEN <<>> ELSE <<ToUpper(w[1])>> \o Lower(SubSeq(w, 2, Len(w)))

\* " ".join(words)
RECURSIVE JoinWords(_)
JoinWords(ws) ==
    IF ws = <<>> THEN <<>>
    ELSE IF Len(ws) = 1 THEN ws[1]
    ELSE ws[1] \o <<" ">> \o JoinWords(Tail(ws))

\* extracted_data[key] = val
SetItem(items, key, val) ==
    [k \in DOMAIN items \cup {key} |-> IF k = key THEN val ELSE items[k]]

\* the program_name branch of the heuristic variant
MockProgramName(text_lower) ==
    LET m == ProgramMatch(text_lower)
    IN  IF m # <<>>
        THEN PyStr(<<"Mock Program: ">> \o
                   JoinWords([i \in 1..Len(Split(m)) |-> Capitalize(Split(m)[i])]))
        ELSE IF Contains(text_lower, <<"i","n","f","o","r","m","a","t","i","o","n"," ","s","t","u","d","i","e","s">>)
        THEN PyStr(<<"Mock Program: Information Studies">>)
        ELSE PyStr(<<"Mock Program: Check official page title">>)

\* faulty tuition_fee branch: all() written for any()
MockFee_AllKeywords(items, text_lower) ==
    IF \A kw \in fee_keywords : Contains(text_lower, kw)
    THEN SetItem(items, "tuition_fee", MOCK_FEE)
    ELSE items

\* the tuition_fee branch: the items after the fee keyword check
MockFee(items, text_lower) ==
    IF AnyIn(fee_keywords, text_lower)
    THEN SetItem(items, "tuition_fee", MOCK_FEE)
    ELSE items

\* the application_deadline branch
MockDeadline(items, text_lower) ==
    IF AnyIn(deadline_keywords, text_lower) \/ AnyIn(month_names, text_lower)
    THEN SetItem(items, "application_deadline", MOCK_DEADLINE)
    ELSE items

\* the entry_requirement_summary branch
MockRequirements(items, text_lower) ==
    IF AnyIn(req_keywords, text_lower)
    THEN SetItem(items, "entry_requirement_summary", MOCK_REQUIREMENTS)
    ELSE items

\* extract_structured_data_mocked(raw_text, university_name)
extract_structured_data_mocked(raw_text, university_name) ==
    LET text_lower == IF Truthy(raw_text) THEN Lower(raw_text.v) ELSE <<>>
        d0 == [k \in SchemaKeys |-> NOT_FOUND]
        d1 == SetItem(d0, "university_name", university_name)
        d2 == SetItem(d1, "program_name", MockProgramName(text_lower))
        d3 == MockFee(d2, text_lower)
        d4 == MockDeadline(d3, text_lower)
        d5 == MockRequirements(d4, text_lower)
    IN  PyDict(d5)

\* ---------------------------------------------------------------- model responses
(***************************************************************************)
(* The text of a model response is a sequence of chunks [k, j]:            *)
(*   "ws"       whitespace                                                 *)
(*   "fence"    ```                                                        *)
(*   "fencejson" ```json                                                   *)
(*   "prose"    Here is the data:                                          *)
(*   "badbrace" {program_name: MSc}     (braces, not JSON)                 *)
(*   "json"     the JSON text of the value j                               *)
(* No two of these chunk texts concatenate to a valid JSON text.           *)
(***************************************************************************)
Chunk(kind) == [k |-> kind, j |-> PyNone]

JsonChunk(value) == [k |-> "json", j |-> value]

PlainChunks == { Chunk(kind) : kind \in {"ws", "fence", "fencejson", "prose", "badbrace"} }

\* the value the model gives key k in a response of the given variant
ModelValue(variant, k) ==
    CASE variant = "notfound" -> PyStr(<<"Not found">>)
      [] variant = "text" ->
            (CASE k = "university_name" -> PyStr(<<"University of Amsterdam">>)
               [] k = "tuition_fee"     -> PyStr(<<"EUR 18,720">>)
               [] OTHER                 -> PyStr(<<"1 March">>))
      [] OTHER ->
            (CASE k = "program_name"    -> PyStr(<<"MSc Information Studies">>)
               [] k = "tuition_fee"     -> JsonNum
               [] k = "entry_requirement_summary" -> JsonList
               [] OTHER                 -> JsonNull)

ModelVariants == {"notfound", "text", "typed"}

ModelKeySets ==
    { SchemaKeys,
      SchemaKeys \cup {"notes"},
      SchemaKeys \ {"university_name"},
      {"program_name", "tuition_fee", "notes"},
      {"notes"},
      {} }

ModelObjects ==
    { PyDict([k \in K |-> ModelValue(variant, k)]) : K \in ModelKeySets, variant \in ModelVariants }

ModelJsonValues == ModelObjects \cup {JsonList, JsonStr, JsonNum, JsonNull}

\* sequences of at most n elements of S
SeqsUpTo(S, n) == UNION { [1..m -> S] : m \in 0..n }

\* the response texts: every chunk sequence up to MaxTokens, around one JSON value
ResponseTexts ==
    UNION { SeqsUpTo(PlainChunks \cup {JsonChunk(value)}, MaxTokens) : value \in ModelJsonValues }

\* ---------------------------------------------------------------- model-backed variant
MISSING_IN_LLM_OUTPUT == PyStr(<<"Not found (missing in LLM output)">>)

\* the chunk's text starts with {
OpensBrace(c) == c.k = "badbrace" \/ (c.k = "json" /\ c.j.t = "dict")

\* the chunk's text ends with }
ClosesBrace(c) == c.k = "badbrace" \/ (c.k = "json" /\ c.j.t = "dict")

\* position after the longest run of whitespace chunks starting at p
RECURSIVE SkipWs(_, _)
SkipWs(c, p) == IF p <= Len(c) /\ c[p].k = "ws" THEN SkipWs(c, p + 1) ELSE p

\* the chunk's text starts with ```
IsFence(c) == c.k \in {"fence", "fencejson"}

\* \s*``` matches at p
ClosedAt(c, p) == LET q == SkipWs(c, p) IN q <= Len(c) /\ IsFence(c[q])

\* ```(?:json)?\s*(\{.*?\})\s*``` anchored at chunk i: <<first, last>> of group(1),
\* <<0, 0>> when there is no match
FenceMatchAt(c, i) ==
    IF ~IsFence(c[i]) THEN <<0, 0>>
    ELSE LET b == SkipWs(c, i + 1)
             ends == { e \in b..Len(c) : ClosesBrace(c[e]) /\ ClosedAt(c, e + 1) }
         IN  IF b <= Len(c) /\ OpensBrace(c[b]) /\ ends # {}
             THEN <<b, CHOOSE e \in ends : \A e2 \in ends : e <= e2>>
             ELSE <<0, 0>>

\* re.search(..., raw_response_content, re.DOTALL): group(1) of the leftmost match
FenceSearch(c) ==
    IF \E i \in 1..Len(c) : FenceMatchAt(c, i) # <<0, 0>>
    THEN LET i == CHOOSE x \in 1..Len(c) :
                    /\ FenceMatchAt(c, x) # <<0, 0>>
                    /\ \A y \in 1..(x - 1) : FenceMatchAt(c, y) = <<0, 0>>
         IN  FenceMatchAt(c, i)
    ELSE <<0, 0>>

\* position before the longest run of whitespace chunks ending at p
RECURSIVE SkipWsBack(_, _)
SkipWsBack(c, p) == IF p >= 1 /\ c[p].k = "ws" THEN SkipWsBack(c, p - 1) ELSE p

\* str.strip()
Strip(c) == SubSeq(c, SkipWs(c, 1), SkipWsBack(c, Len(c)))

\* the JSON text handed to json.loads
JsonStrOf(c) ==
    LET m == FenceSearch(c)
    IN  IF m # <<0, 0>> THEN SubSeq(c, m[1], m[2]) ELSE Strip(c)

JSONDecodeError == [t |-> "JSONDecodeError", v |-> <<>>, d |-> EmptyItems]

\* json.loads(json_str): the value, or JSONDecodeError
JsonLoads(json_str) ==
    LET body == Strip(json_str)
    IN  IF Len(body) = 1 /\ body[1].k = "json" THEN body[1].j ELSE JSONDecodeError

\* faulty validation: a missing key gets the plain sentinel, without provenance
ValidatedValue_PlainSentinel(extracted_data, key) ==
    IF key \in DOMAIN extracted_data.d
    THEN extracted_data.d[key]
    ELSE NOT_FOUND

\* validated_data[key] for one schema key
ValidatedValue(extracted_data, key) ==
    IF key \in DOMAIN extracted_data.d
    THEN extracted_data.d[key]
    ELSE MISSING_IN_LLM_OUTPUT

\* the loop `for key in TARGET_SCHEMA` over the first n schema keys
RECURSIVE ValidateKeys(_, _)
ValidateKeys(extracted_data, n) ==
    IF n = 0 THEN EmptyItems
    ELSE SetItem(ValidateKeys(extracted_data, n - 1), TARGET_SCHEMA[n],
                 ValidatedValue(extracted_data, TARGET_SCHEMA[n]))

\* missing_keys and extra_keys, reported as warnings only
MissingKeys(extracted_data) == SchemaKeys \ DOMAIN extracted_data.d

ExtraKeys(extracted_data) == DOMAIN extracted_data.d \ SchemaKeys

\* faulty step 5: the parsed object is returned as it is, keys unvalidated
ParseAndValidate_Unvalidated(content) ==
    IF content.t = "none" THEN PyNone
    ELSE LET extracted_data == JsonLoads(JsonStrOf(content.toks))
         IN  IF extracted_data.t # "dict" THEN PyNone
             ELSE PyDict(extracted_data.d)

\* faulty step 5: no isinstance check and a swallowed decode error, so that a
\* payload that is no object yields a record of sentinels
ParseAndValidate_Guess(content) ==
    IF content.t = "none" THEN PyNone
    ELSE PyDict(ValidateKeys(JsonLoads(JsonStrOf(content.toks)), Len(TARGET_SCHEMA)))

\* step 5 of extract_structured_data_ollama: the value returned for a response content
ParseAndValidate(content) ==
    IF content.t = "none" THEN PyNone
    ELSE LET extracted_data == JsonLoads(JsonStrOf(content.toks))
         IN  IF extracted_data.t # "dict" THEN PyNone
             ELSE PyDict(ValidateKeys(extracted_data, Len(TARGET_SCHEMA)))

\* ---------------------------------------------------------------- inputs
\* pieces of page text; a text is a concatenation of pieces
Frags ==
    { <<"M","a","s","t","e","r">>,
      <<"'","s"," ">>,
      <<"i","n"," ">>,
      <<"A","I">>,
      <<"P","r","o","g","r","a","m","m","e"," ">>,
      <<"F","e">>,
      <<"e">>,
      <<"$">>,
      <<"D","e","c">>,
      <<"I","E","L","T","S">>,
      <<"I","n","f","o","r","m","a","t","i","o","n"," ","S","t","u","d","i","e","s">>,
      <<"."," ">> }

RECURSIVE Concat(_)
Concat(pieces) == IF pieces = <<>> THEN <<>> ELSE pieces[1] \o Concat(Tail(pieces))

\* the texts handed directly to the heuristic variant
Texts == { Concat(pieces) : pieces \in SeqsUpTo(Frags, MaxFrags) }

\* the texts of the elements of a fetched page
PageTexts ==
    { <<>>,
      <<"T","u","i","t","i","o","n"," ","f","e","e"," ","E","U","R"," ","1","8",",","7","2","0">>,
      <<"M","a","s","t","e","r","'","s"," ","P","r","o","g","r","a","m","m","e"," ","i","n"," ","A","I","."," ","A","p","p","l","y"," ","b","y"," ","1"," ","M","a","r","c","h","."," ","I","E","L","T","S"," ","6",".","5">> }

\* the text of a direct call of the model-backed variant
SampleText == <<"M","a","s","t","e","r","'","s"," ","P","r","o","g","r","a","m","m","e",":"," ","A","d","v","a","n","c","e","d"," ","W","e","b"," ","S","y","s","t","e","m","s">>

Universities == { PyStr(<<"University of Amsterdam">>), PyStr(<<"Test University">>) }

\* os.getenv: unset, set to the empty string, or set
BaseUrlValues == { PyNone, PyStr(<<>>), PyStr(<<"http://localhost:11434/v1">>) }

ModelNameValues == { PyNone, PyStr(<<>>), PyStr(<<"llama3">>) }

\* a parsed page: the text of <main id="main">, of <div class="content-area"> and
\* of <body>, PyNone for an element the page does not have
Pages ==
    [ main : {PyNone} \cup { PyStr(t) : t \in PageTexts },
      div  : {PyNone, PyStr(<<"T","u","i","t","i","o","n"," ","f","e","e"," ","E","U","R"," ","1","8",",","7","2","0">>)},
      body : {PyNone} \cup { PyStr(t) : t \in PageTexts } ]

\* how requests.get / raise_for_status / BeautifulSoup end
FetchOutcomes == {"ok", "RequestException", "Exception", "ParseException"}

\* how client.chat.completions.create ends
ApiOutcomes ==
    {"ok", "APIConnectionError", "RateLimitError",
     "APIStatusError:response_format", "APIStatusError", "Exception"}

NoContent == [t |-> "none", toks |-> <<>>]

\* response.choices[0].message.content: a text, or None
Contents == {NoContent} \cup { [t |-> "str", toks |-> c] : c \in ResponseTexts }

\* ---------------------------------------------------------------- fetcher
\* scrape_program_page(url): the text returned for a fetch outcome and a page
scrape_program_page(outcome, page) ==
    IF outcome # "ok" THEN PyNone
    ELSE IF page.main.t # "none" THEN page.main
    ELSE IF page.div.t # "none" THEN page.div
    ELSE IF page.body.t # "none" THEN page.body
    ELSE PyStr(<<>>)

\* ---------------------------------------------------------------- state
VARIABLES
    entry,                \* what was started: "main", "pipeline", "mock" or "ollama"
    university,           \* the university / university_name argument
    extractor_type,       \* the extractor_type / --extractor argument
    env,                  \* OLLAMA_BASE_URL and OLLAMA_MODEL of the environment
    pc,                   \* the position of the run
    raw_text,             \* the raw_text of the pipeline or of a direct call
    raw_response_content, \* the content of the model's response
    api_error,            \* the exception the completion request raised, "none" if none
    structured_data,      \* the value the extraction variant returned
    result_data,          \* the value run_extraction_pipeline returned
    reported,             \* what __main__ printed: "none", "data" or "failed"
    file_written,         \* __main__ wrote the output file
    exit_status,          \* "running", or the exit status of the process
    scrape_calls,         \* calls of scrape_program_page
    mock_calls,           \* calls of extract_structured_data_mocked
    ollama_calls,         \* calls of extract_structured_data_ollama
    api_requests          \* calls of client.chat.completions.create

vars ==
    <<entry, university, extractor_type, env, pc, raw_text, raw_response_content,
      api_error, structured_data, result_data, reported, file_written, exit_status,
      scrape_calls, mock_calls, ollama_calls, api_requests>>

args == <<entry, university, extractor_type, env>>

calls == <<scrape_calls, mock_calls, ollama_calls, api_requests>>

main_vars == <<reported, file_written, exit_status>>

Init ==
    /\ entry \in {"main", "pipeline", "mock", "ollama"}
    /\ university \in Universities
    /\ IF entry \in {"main", "pipeline"}
       THEN /\ extractor_type \in {"mock", "ollama", "gpt"}
            /\ raw_text = PyNone
       ELSE /\ extractor_type = entry
            /\ IF entry = "mock"
               THEN raw_text \in {PyNone} \cup { PyStr(t) : t \in Texts }
               ELSE raw_text = PyStr(SampleText)
    /\ IF entry = "mock"
       THEN env = [OLLAMA_BASE_URL |-> PyNone, OLLAMA_MODEL |-> PyNone]
       ELSE env \in [OLLAMA_BASE_URL : BaseUrlValues, OLLAMA_MODEL : ModelNameValues]
    /\ pc = entry
    /\ raw_response_content = NoContent
    /\ api_error = "none"
    /\ structured_data = PyNone
    /\ result_data = PyNone
    /\ reported = "none"
    /\ file_written = FALSE
    /\ exit_status = "running"
    /\ scrape_calls = 0
    /\ mock_calls = 0
    /\ ollama_calls = 0
    /\ api_requests = 0

\* ---------------------------------------------------------------- main.py
\* argparse: --extractor has choices ['mock', 'ollama']; any other value ends the
\* process with the usage status before the pipeline starts
ParseArgs ==
    /\ pc = "main"
    /\ IF extractor_type \in {"mock", "ollama"}
       THEN pc' = "pipeline" /\ exit_status' = exit_status
       ELSE pc' = "exited" /\ exit_status' = "2"
    /\ UNCHANGED <<args, raw_text, raw_response_content, api_error, structured_data,
                   result_data, reported, file_written, calls>>

\* where run_extraction_pipeline returns to
AfterPipeline == IF entry = "main" THEN "report" ELSE "done"

\* faulty step 1: the `if not raw_text` abort is missing
PipelineFetch_NoAbort ==
    /\ pc = "pipeline"
    /\ \E outcome \in FetchOutcomes, page \in Pages :
          raw_text' = scrape_program_page(outcome, page)
    /\ pc' = "extract"
    /\ scrape_calls' = scrape_calls + 1
    /\ result_data' = PyNone
    /\ UNCHANGED <<args, raw_response_content, api_error, structured_data, main_vars,
                   mock_calls, ollama_calls, api_requests>>

\* faulty step 1: `if raw_text is None` written for `if not raw_text`
PipelineFetch_NoneOnly ==
    /\ pc = "pipeline"
    /\ \E outcome \in FetchOutcomes, page \in Pages :
          LET text == scrape_program_page(outcome, page)
          IN  /\ raw_text' = text
              /\ pc' = IF text.t = "none" THEN AfterPipeline ELSE "extract"
    /\ scrape_calls' = scrape_calls + 1
    /\ result_data' = PyNone
    /\ UNCHANGED <<args, raw_response_content, api_error, structured_data, main_vars,
                   mock_calls, ollama_calls, api_requests>>

\* run_extraction_pipeline, step 1: scrape, and abort when there is no text
PipelineFetch ==
    /\ pc = "pipeline"
    /\ \E outcome \in FetchOutcomes, page \in Pages :
          LET text == scrape_program_page(outcome, page)
          IN  /\ raw_text' = text
              /\ pc' = IF ~Truthy(text) THEN AfterPipeline ELSE "extract"
    /\ scrape_calls' = scrape_calls + 1
    /\ result_data' = PyNone
    /\ UNCHANGED <<args, raw_response_content, api_error, structured_data, main_vars,
                   mock_calls, ollama_calls, api_requests>>

\* run_extraction_pipeline, step 2: call the selected extractor
PipelineExtract ==
    /\ pc = "extract"
    /\ CASE extractor_type = "ollama" ->
              /\ ollama_calls' = ollama_calls + 1
              /\ pc' = "ollama_config"
              /\ UNCHANGED <<mock_calls, structured_data, result_data>>
         [] extractor_type = "mock" ->
              /\ mock_calls' = mock_calls + 1
              /\ structured_data' = extract_structured_data_mocked(raw_text, university)
              /\ pc' = "check"
              /\ UNCHANGED <<ollama_calls, result_data>>
         [] OTHER ->
              /\ result_data' = PyNone
              /\ pc' = AfterPipeline
              /\ UNCHANGED <<mock_calls, ollama_calls, structured_data>>
    /\ UNCHANGED <<args, raw_text, raw_response_content, api_error, main_vars,
                   scrape_calls, api_requests>>

\* run_extraction_pipeline, step 3: check the result and return
PipelineCheck ==
    /\ pc = "check"
    /\ result_data' = IF ~Truthy(structured_data) THEN PyNone ELSE structured_data
    /\ pc' = AfterPipeline
    /\ UNCHANGED <<args, raw_text, raw_response_content, api_error, structured_data,
                   main_vars, calls>>

\* __main__ after the pipeline: print the result (and save it when --output is
\* given) or print the failure notice; then the script runs off its end
MainReport ==
    /\ pc = "report"
    /\ IF Truthy(result_data)
       THEN /\ reported' = "data"
            /\ \E output_given \in BOOLEAN, write_ok \in BOOLEAN :
                  file_written' = (output_given /\ write_ok)
       ELSE /\ reported' = "failed"
            /\ file_written' = FALSE
    /\ exit_status' = "0"
    /\ pc' = "exited"
    /\ UNCHANGED <<args, raw_text, raw_response_content, api_error, structured_data,
                   result_data, calls>>

\* ---------------------------------------------------------------- llm_extractor.py
\* a direct call of extract_structured_data_mocked
DirectMock ==
    /\ pc = "mock"
    /\ mock_calls' = mock_calls + 1
    /\ structured_data' = extract_structured_data_mocked(raw_text, university)
    /\ pc' = "done"
    /\ UNCHANGED <<args, raw_text, raw_response_content, api_error, result_data,
                   main_vars, scrape_calls, ollama_calls, api_requests>>

\* a direct call of extract_structured_data_ollama
DirectOllama ==
    /\ pc = "ollama"
    /\ ollama_calls' = ollama_calls + 1
    /\ pc' = "ollama_config"
    /\ UNCHANGED <<args, raw_text, raw_response_content, api_error, structured_data,
                   result_data, main_vars, scrape_calls, mock_calls, api_requests>>

\* where extract_structured_data_ollama returns to
AfterOllama == IF entry = "ollama" THEN "done" ELSE "check"

\* faulty configuration check: only the base address is looked at
Configured_BaseUrlOnly(e) == Truthy(e.OLLAMA_BASE_URL)

\* both configuration values are present (`not ollama_base_url or not ollama_model`
\* is false)
Configured(e) == Truthy(e.OLLAMA_BASE_URL) /\ Truthy(e.OLLAMA_MODEL)

\* extract_structured_data_ollama, steps 1 to 3: configuration, client, prompts
OllamaConfig ==
    /\ pc = "ollama_config"
    /\ IF ~Configured(env)
       THEN /\ structured_data' = PyNone
            /\ pc' = AfterOllama
       ELSE \E client_ok \in BOOLEAN :
               IF client_ok
               THEN /\ pc' = "ollama_request"
                    /\ UNCHANGED structured_data
               ELSE /\ structured_data' = PyNone
                    /\ pc' = AfterOllama
    /\ UNCHANGED <<args, raw_text, raw_response_content, api_error, result_data,
                   main_vars, calls>>

\* faulty step 4: a JSON-mode rejection is retried once without JSON mode
OllamaRequest_RetryJsonMode ==
    /\ pc = "ollama_request"
    /\ api_requests' = api_requests + 1
    /\ \E outcome \in ApiOutcomes :
          IF outcome = "ok"
          THEN /\ raw_response_content' \in Contents
               /\ pc' = "ollama_parse"
               /\ UNCHANGED <<api_error, structured_data>>
          ELSE IF outcome = "APIStatusError:response_format" /\ api_error = "none"
          THEN /\ api_error' = outcome
               /\ pc' = "ollama_request"
               /\ UNCHANGED <<raw_response_content, structured_data>>
          ELSE /\ api_error' = outcome
               /\ structured_data' = PyNone
               /\ pc' = AfterOllama
               /\ UNCHANGED raw_response_content
    /\ UNCHANGED <<args, raw_text, result_data, main_vars,
                   scrape_calls, mock_calls, ollama_calls>>

\* extract_structured_data_ollama, step 4: the completion request
OllamaRequest ==
    /\ pc = "ollama_request"
    /\ api_requests' = api_requests + 1
    /\ \E outcome \in ApiOutcomes :
          IF outcome = "ok"
          THEN /\ raw_response_content' \in Contents
               /\ pc' = "ollama_parse"
               /\ UNCHANGED <<api_error, structured_data>>
          ELSE /\ api_error' = outcome
               /\ structured_data' = PyNone
               /\ pc' = AfterOllama
               /\ UNCHANGED raw_response_content
    /\ UNCHANGED <<args, raw_text, result_data, main_vars,
                   scrape_calls, mock_calls, ollama_calls>>

\* extract_structured_data_ollama, step 5: parse and validate the response
OllamaParse ==
    /\ pc = "ollama_parse"
    /\ structured_data' = ParseAndValidate(raw_response_content)
    /\ pc' = AfterOllama
    /\ UNCHANGED <<args, raw_text, raw_response_content, api_error, result_data,
                   main_vars, calls>>

Next ==
    \/ ParseArgs
    \/ PipelineFetch
    \/ PipelineExtract
    \/ PipelineCheck
    \/ MainReport
    \/ DirectMock
    \/ DirectOllama
    \/ OllamaConfig
    \/ OllamaRequest
    \/ OllamaParse

Spec == Init /\ [][Next]_vars

\* ---------------------------------------------------------------- properties
\* the model-backed variant has returned to its caller
OllamaReturned ==
    ollama_calls = 1 /\ pc \notin {"ollama_config", "ollama_request", "ollama_parse"}

\* the model-backed variant received a response and has returned
OllamaParsed == OllamaReturned /\ api_requests = 1 /\ api_error = "none"

\* run_extraction_pipeline has returned to its caller
PipelineReturned ==
    /\ entry \in {"main", "pipeline"}
    /\ pc \in {"report", "done"} \/ (pc = "exited" /\ exit_status = "0")

\* the value json.loads gave for the response held in raw_response_content
ParsedResponse == JsonLoads(JsonStrOf(raw_response_content.toks))

\* C1: every record an extraction variant returns has exactly the five schema
\* keys program_name, university_name, tuition_fee, application_deadline and
\* entry_requirement_summary, whatever keys the model's JSON object had.
C1_ExactSchemaKeys ==
    /\ structured_data.t = "dict" =>
          DOMAIN structured_data.d =
             {"program_name", "university_name", "tuition_fee",
              "application_deadline", "entry_requirement_summary"}
    /\ result_data.t = "dict" => DOMAIN result_data.d = DOMAIN structured_data.d

\* C1 witness: the model-backed variant returned a record for a JSON object that
\* misses schema keys and has an extra key.
C1_Witness ==
    /\ OllamaParsed
    /\ structured_data.t = "dict"
    /\ DOMAIN ParsedResponse.d = {"program_name", "tuition_fee", "notes"}

\* C2 (as claimed): whenever a variant returns a record, its university_name is
\* the university_name argument, unchanged.
C2_UniversityVerbatim ==
    structured_data.t = "dict" => structured_data.d["university_name"] = university

\* C3: in a pipeline run, once the fetcher has returned None the pipeline has
\* returned no result and no extraction function was called, for every
\* extractor_type; and an extraction call happens only after a fetch that
\* produced text.
C3_NoExtractionAfterFailedFetch ==
    entry \in {"main", "pipeline"} =>
       /\ (scrape_calls = 1 /\ raw_text.t = "none") =>
             /\ PipelineReturned
             /\ result_data.t = "none"
             /\ mock_calls = 0 /\ ollama_calls = 0 /\ api_requests = 0
       /\ (mock_calls > 0 \/ ollama_calls > 0) =>
             scrape_calls = 1 /\ raw_text.t = "str"

\* C3 witness: a direct pipeline call with an unknown extractor_type whose fetch
\* returned None has returned.
C3_Witness ==
    /\ entry = "pipeline"
    /\ extractor_type = "gpt"
    /\ scrape_calls = 1
    /\ raw_text.t = "none"
    /\ pc = "done"

\* a configuration value is missing: unset or empty
Missing(value) == value.t = "none" \/ (value.t = "str" /\ Len(value.v) = 0)

\* C4: when OLLAMA_BASE_URL or OLLAMA_MODEL is missing, the model-backed variant
\* returns None without issuing a request; a completion request is issued only
\* when both values are present.
C4_NoRequestWithoutConfig ==
    /\ api_requests > 0 =>
          ~Missing(env.OLLAMA_BASE_URL) /\ ~Missing(env.OLLAMA_MODEL)
    /\ (OllamaReturned /\ (Missing(env.OLLAMA_BASE_URL) \/ Missing(env.OLLAMA_MODEL))) =>
          structured_data.t = "none" /\ api_requests = 0

\* C4 witness: the variant returned with the base address set and the model
\* identifier set to the empty string.
C4_Witness ==
    /\ OllamaReturned
    /\ env.OLLAMA_BASE_URL.t = "str" /\ env.OLLAMA_BASE_URL.v # <<>>
    /\ env.OLLAMA_MODEL = PyStr(<<>>)

\* C5: the model-backed variant returns a record only when the response content
\* parsed to a JSON object; when the content is absent, is not JSON, or is a
\* list, string, number or null, it returns None.
C5_FailClosedOnBadPayload ==
    /\ (ollama_calls = 1 /\ structured_data.t = "dict") =>
          /\ OllamaParsed
          /\ raw_response_content.t = "str"
          /\ ParsedResponse.t = "dict"
    /\ (OllamaParsed /\ (raw_response_content.t = "none" \/ ParsedResponse.t # "dict")) =>
          structured_data.t = "none"

\* C5 witness: the variant returned None for a response whose payload is a
\* JSON list.
C5_Witness ==
    /\ OllamaParsed
    /\ raw_response_content.t = "str"
    /\ ParsedResponse.t = "list"
    /\ structured_data.t = "none"

\* C6: for every parsed JSON object and every schema key, the returned record
\* holds "Not found (missing in LLM output)" when the object lacks the key and
\* the object's own value when it has it; the call returns a record whatever
\* keys are missing or extra.
C6_KeyValidation ==
    (OllamaParsed /\ raw_response_content.t = "str" /\ ParsedResponse.t = "dict") =>
       /\ structured_data.t = "dict"
       /\ \A key \in SchemaKeys :
             /\ key \in DOMAIN structured_data.d
             /\ IF key \in DOMAIN ParsedResponse.d
                THEN structured_data.d[key] = ParsedResponse.d[key]
                ELSE structured_data.d[key] = PyStr(<<"Not found (missing in LLM output)">>)
       /\ PipelineReturned => result_data = structured_data

\* C6 witness: a pipeline run returned the record of a JSON object that has
\* every schema key except university_name.
C6_Witness ==
    /\ OllamaParsed
    /\ PipelineReturned
    /\ raw_response_content.t = "str"
    /\ ParsedResponse.t = "dict"
    /\ DOMAIN ParsedResponse.d = SchemaKeys \ {"university_name"}
    /\ result_data.t = "dict"

\* C7 (as claimed): the process ends with a success status only when the
\* pipeline produced a record; a failed pipeline ends it with another status.
C7_FailureExitsNonZero ==
    (entry = "main" /\ exit_status = "0") => result_data.t = "dict"

\* C8: in one run the fetcher is called exactly once, an extraction variant at
\* most once and the completion request is issued at most once; after a failed
\* request no other request follows and the run ends without a result.
C8_SingleAttemptPerStage ==
    /\ scrape_calls <= 1
    /\ mock_calls + ollama_calls <= 1
    /\ api_requests <= 1
    /\ PipelineReturned => scrape_calls = 1
    /\ api_error # "none" =>
          /\ api_requests = 1
          /\ OllamaReturned
          /\ structured_data.t = "none"
          /\ PipelineReturned => result_data.t = "none"
          /\ pc = "exited" => reported = "failed"

\* C8 witness: the main program ended after the endpoint rejected JSON mode.
C8_Witness ==
    /\ entry = "main"
    /\ pc = "exited"
    /\ api_error = "APIStatusError:response_format"
    /\ api_requests = 1

\* C9 (as claimed): every value of every returned record is a string.
C9_AllValuesStrings ==
    structured_data.t = "dict" =>
       \A key \in DOMAIN structured_data.d : structured_data.d[key].t = "str"

\* C10: the heuristic variant's tuition_fee is the placeholder fee string exactly
\* when the lower-cased text contains a fee keyword or currency symbol, and
\* "Not found" otherwise, whatever the other fields matched.
C10_FeeIffFeeKeyword ==
    (mock_calls = 1 /\ structured_data.t = "dict") =>
       LET text_lower == IF raw_text.t = "str" THEN Lower(raw_text.v) ELSE <<>>
       IN  structured_data.d["tuition_fee"] =
              IF \E kw \in fee_keywords : Contains(text_lower, kw)
              THEN PyStr(<<"Mock Fee: Approx. €XX,XXX / year (Non-EU). Verify on official page.">>)
              ELSE PyStr(<<"Not found">>)

\* C10 witness: a text spelling "Fee" in mixed case, with no deadline or
\* requirement keyword, got the placeholder fee and no other placeholder.
C10_Witness ==
    /\ mock_calls = 1
    /\ raw_text = PyStr(<<"F","e","e">>)
    /\ structured_data.t = "dict"
    /\ structured_data.d["tuition_fee"] = MOCK_FEE
    /\ structured_data.d["application_deadline"] = NOT_FOUND
    /\ structured_data.d["entry_requirement_summary"] = NOT_FOUND
\* C11: in a pipeline run, a fetch that succeeded with the empty string ends the
\* run like a failed fetch: the pipeline returns no result and calls no
\* extraction function; so the pipeline calls an extraction function with
\* non-empty text only, and never calls the heuristic variant on empty text.
C11_EmptyTextAbortsPipeline ==
    entry \in {"main", "pipeline"} =>
       /\ (scrape_calls = 1 /\ raw_text.t = "str" /\ Len(raw_text.v) = 0) =>
             /\ PipelineReturned
             /\ result_data.t = "none"
             /\ structured_data.t = "none"
             /\ mock_calls = 0 /\ ollama_calls = 0 /\ api_requests = 0
       /\ (pc \in {"ollama_config", "ollama_request", "ollama_parse", "check"}
            \/ mock_calls > 0 \/ ollama_calls > 0) =>
             raw_text.t = "str" /\ Len(raw_text.v) > 0

\* C11 witness: the main program, set to the heuristic variant, reported a
\* failure after a fetch that succeeded with the empty string.
C11_Witness ==
    /\ entry = "main"
    /\ extractor_type = "mock"
    /\ scrape_calls = 1
    /\ raw_text = PyStr(<<>>)
    /\ pc = "exited"
    /\ reported = "failed"
    /\ mock_calls = 0

====
